---- MODULE Spec2Model ----
(***************************************************************************)
(* Model of chess.py (BotezGambits): the move tokenizer _get_moves_list    *)
(* and the queen-loss detector _get_botez_gambit.                          *)
(*                                                                         *)
(* A Python str is modelled as a sequence of one-character strings, so     *)
(* that every substring test, replacement and regular expression of the    *)
(* source is computed character by character.  A Python list of str is a   *)
(* sequence of such sequences.                                             *)
(***************************************************************************)
EXTENDS Integers, Sequences, FiniteSets, TLC

VARIABLES pc, pgn, text, moves, i, fallen_queen, status, result,
          games, offered

vars == <<pc, pgn, text, moves, i, fallen_queen, status, result,
          games, offered>>

\* self._games, and every game handed to _register_games so far
registry == <<games, offered>>

(***************************************************************************)
(* Bounds of the model.                                                    *)
(***************************************************************************)
\* longest token sequence handed directly to _get_botez_gambit
MaxMoves == 5
\* largest number of lexical pieces in the body of a game record
MaxPieces == 4
\* longest run of whitespace between two half-moves of a record
MaxRun == 4
\* largest number of games handed to _register_games, over all calls
MaxOffered == 4

(***************************************************************************)
(* Characters and character classes.                                       *)
(***************************************************************************)
NL == "\n"
SP == " "

\* Python's \s and str.strip(): the whitespace the inputs can contain
Whitespace == {SP, NL}

\* Python's \d
Digits == {"0", "1", "2", "3", "4", "5", "6", "7", "8", "9"}

\* Python's None, and the empty str / empty list
None == <<>>

(***************************************************************************)
(* Generic str operations of Python, as the source uses them.              *)
(***************************************************************************)

\* s[a:] with a 1-based first position
From(s, a) == SubSeq(s, a, Len(s))

\* pat occurs in s at 1-based position k
MatchAt(s, pat, k) ==
    /\ k >= 1
    /\ k + Len(pat) - 1 <= Len(s)
    /\ \A j \in 1..Len(pat) : s[k + j - 1] = pat[j]

\* `pat in s`
Contains(s, pat) == \E k \in 1..(Len(s) - Len(pat) + 1) : MatchAt(s, pat, k)

\* s.startswith(pat)
StartsWith(s, pat) == MatchAt(s, pat, 1)

\* s.replace(old, new): leftmost non-overlapping occurrences, old non-empty
RECURSIVE Replace(_, _, _)
Replace(s, old, new) ==
    IF s = <<>> THEN <<>>
    ELSE IF MatchAt(s, old, 1)
         THEN new \o Replace(From(s, Len(old) + 1), old, new)
         ELSE <<s[1]>> \o Replace(From(s, 2), old, new)

\* s.split(sep): the list of fragments between the occurrences of sep
RECURSIVE Split(_, _)
Split(s, sep) ==
    IF ~Contains(s, sep) THEN <<s>>
    ELSE LET k == CHOOSE n \in 1..Len(s) :
                      /\ MatchAt(s, sep, n)
                      /\ \A m \in 1..(n - 1) : ~MatchAt(s, sep, m)
         IN  <<SubSeq(s, 1, k - 1)>> \o Split(From(s, k + Len(sep)), sep)

\* s.lstrip(chars) and s.rstrip(chars)
RECURSIVE LStrip(_, _)
LStrip(s, chars) ==
    IF s # <<>> /\ s[1] \in chars THEN LStrip(From(s, 2), chars) ELSE s

RECURSIVE RStrip(_, _)
RStrip(s, chars) ==
    IF s # <<>> /\ s[Len(s)] \in chars
    THEN RStrip(SubSeq(s, 1, Len(s) - 1), chars)
    ELSE s

\* s.strip(chars)
Strip(s, chars) == RStrip(LStrip(s, chars), chars)

(***************************************************************************)
(* The regular expressions of _get_moves_list and _get_botez_gambit.       *)
(***************************************************************************)

\* re.match(r'\{.+?\}', s): the length of the match at the start of s, or 0.
\* '.' matches anything but a newline, '+?' takes the fewest characters
\* (at least one) so the match ends at the first '}' at position 3 or
\* later that no newline separates from the '{'.
ClickLen(s) ==
    LET ends == {j \in 3..Len(s) :
                    /\ s[j] = "}"
                    /\ \A m \in 2..(j - 1) : s[m] # NL}
    IN  IF s # <<>> /\ s[1] = "{" /\ ends # {}
        THEN CHOOSE j \in ends : \A m \in ends : j <= m
        ELSE 0

\* re.sub(r'\{.+?\}', '', s)
RECURSIVE SubClicks(_)
SubClicks(s) ==
    IF s = <<>> THEN <<>>
    ELSE LET n == ClickLen(s)
         IN  IF n > 0 THEN SubClicks(From(s, n + 1))
             ELSE <<s[1]>> \o SubClicks(From(s, 2))

\* re.sub(r'\s(\s)+?', ' ', s): '+?' takes exactly one more whitespace
\* character, so every match is two characters long
RECURSIVE SubSpaces(_)
SubSpaces(s) ==
    IF s = <<>> THEN <<>>
    ELSE IF Len(s) >= 2 /\ s[1] \in Whitespace /\ s[2] \in Whitespace
         THEN <<SP>> \o SubSpaces(From(s, 3))
         ELSE <<s[1]>> \o SubSpaces(From(s, 2))

\* the length of the match of r'\d+\.' at 1-based position d of s, or 0
DigitsDotLen(s, d) ==
    LET runs == {e \in d..Len(s) : \A m \in d..e : s[m] \in Digits}
    IN  IF runs = {} THEN 0
        ELSE LET e == CHOOSE x \in runs : \A y \in runs : y <= x
             IN  IF e + 1 <= Len(s) /\ s[e + 1] = "." THEN e + 2 - d ELSE 0

\* re.match(r'\s?\d+\.\s?', s): the length of the match at the start of s,
\* or 0
NumberLen(s) ==
    LET lead == IF s # <<>> /\ s[1] \in Whitespace THEN 1 ELSE 0
        n    == DigitsDotLen(s, lead + 1)
        last == lead + n
    IN  IF n = 0 THEN 0
        ELSE IF last + 1 <= Len(s) /\ s[last + 1] \in Whitespace
             THEN last + 1
             ELSE last

\* re.split(r'\s?\d+\.\s?', s), acc the fragment read so far
RECURSIVE SplitNumbers(_, _)
SplitNumbers(s, acc) ==
    IF s = <<>> THEN <<acc>>
    ELSE LET n == NumberLen(s)
         IN  IF n > 0 THEN <<acc>> \o SplitNumbers(From(s, n + 1), <<>>)
             ELSE SplitNumbers(From(s, 2), Append(acc, s[1]))

\* re.sub(r'Q(x)?', '', s)
RECURSIVE SubQueen(_)
SubQueen(s) ==
    IF s = <<>> THEN <<>>
    ELSE IF s[1] = "Q"
         THEN IF Len(s) >= 2 /\ s[2] = "x"
              THEN SubQueen(From(s, 3))
              ELSE SubQueen(From(s, 2))
         ELSE <<s[1]>> \o SubQueen(From(s, 2))

(***************************************************************************)
(* _get_moves_list, one definition per statement.                          *)
(***************************************************************************)

\* pgn.split('\n\n')
PgnSections(p) == Split(p, <<NL, NL>>)

\* Remove clicks
RemoveClicks(m) == SubClicks(m)

\* Unify white/black moves
UnifyMoves(m) == Replace(m, <<".", ".", ".">>, <<".">>)

\* Remove result
RemoveResult(m) ==
    Replace(Replace(Replace(m, <<"1", "-", "0">>, <<>>),
                    <<"0", "-", "1">>, <<>>),
            <<"1", "/", "2", "-", "1", "/", "2">>, <<>>)

\* Remove new lines and trailing spaces
StripMoves(m) == Strip(Strip(m, {NL}), Whitespace)

\* Remove extra spaces
RemoveExtraSpaces(m) == SubSpaces(m)

\* Split to get only moves
SplitMoves(m) == SplitNumbers(m, <<>>)

\* variant: the first element is kept
KeepFirst(l) == l

\* Remove first element that is always empty due to the split
DropFirst(l) == SubSeq(l, 2, Len(l))

(***************************************************************************)
(* _get_botez_gambit: the locals and the tests of the loop body.           *)
(***************************************************************************)

flip_color(c) == IF c = "white" THEN "black" ELSE "white"

InitialStatus ==
    [white |-> <<"d", "1">>, black |-> <<"d", "8">>, to_move |-> "white"]

\* variant: the check marker is tested instead of the mate marker
NotTakeNorCheck(move) == ~Contains(move, <<"x">>) /\ ~Contains(move, <<"+">>)

\* variant: only the capture marker is tested
NotTake(move) == ~Contains(move, <<"x">>)

\* not 'x' in move and not '#' in move
NotTakeNorMate(move) == ~Contains(move, <<"x">>) /\ ~Contains(move, <<"#">>)

\* variant: the queen of the side to move is looked up
OwnQueen(st) == st[st.to_move]

\* status[flip_color[status['to_move']]]
OpponentQueen(st) == st[flip_color(st.to_move)]

\* variant: any capture counts as taking the queen
TakesAnything(st, move) == Contains(move, <<"x">>)

\* 'x{}'.format(opponent_queen) in move
TakesQueen(st, move) == Contains(move, <<"x">> \o OpponentQueen(st))

\* math.ceil(n / 2)
CeilHalf(n) == IF n % 2 = 0 THEN n \div 2 ELSE (n \div 2) + 1

\* variant: the index is not advanced to a 1-based position
FallenQueenOffByOne(k, move) == <<CeilHalf(k), move>>

\* fallen_queen = math.ceil((i+1)/2), move
FallenQueen(k, move) == <<CeilHalf(k + 1), move>>

\* variant: the check marker is left on the square
QueenSquareKeepsCheck(move) == SubQueen(move)

\* re.sub(r'Q(x)?', '', move.replace('+', ''))
QueenSquare(move) == SubQueen(Replace(move, <<"+">>, <<>>))

\* variant: the square of the other side's queen is updated
TrackWrongSide(st, move) ==
    LET moved == IF StartsWith(move, <<"Q">>)
                 THEN [st EXCEPT ![flip_color(st.to_move)] = QueenSquare(move)]
                 ELSE st
    IN  [moved EXCEPT !.to_move = flip_color(st.to_move)]

\* the queen update and the change of colour that end the loop body
Track(st, move) ==
    LET moved == IF StartsWith(move, <<"Q">>)
                 THEN [st EXCEPT ![st.to_move] = QueenSquare(move)]
                 ELSE st
    IN  [moved EXCEPT !.to_move = flip_color(st.to_move)]

(***************************************************************************)
(* Inputs.                                                                 *)
(***************************************************************************)

\* the concatenation of a list of strings
RECURSIVE Concat(_)
Concat(l) == IF l = <<>> THEN <<>> ELSE l[1] \o Concat(Tail(l))

\* all sequences over S of length at most n
SeqsUpTo(S, n) == UNION {[1..k -> S] : k \in 0..n}

\* half-move tokens: a check, a queen move, a queen taking on d8 with
\* check, a king taking on d8, a mating queen move, a knight taking on h5
\* and a queen taking on d1
Tokens ==
    { <<"N", "f", "3", "+">>,
      <<"Q", "h", "5">>,
      <<"Q", "x", "d", "8", "+">>,
      <<"K", "x", "d", "8">>,
      <<"Q", "h", "4", "#">>,
      <<"N", "x", "h", "5">>,
      <<"Q", "x", "d", "1">> }

\* d4 d5 Qd3 Qd6 Qxd5 Qxd1
QueenTradeScenario ==
    << <<"d", "4">>,
       <<"d", "5">>,
       <<"Q", "d", "3">>,
       <<"Q", "d", "6">>,
       <<"Q", "x", "d", "5">>,
       <<"Q", "x", "d", "1">> >>

\* e4 e5 Qh5 Nf6 Qxh7
UnresolvedScenario ==
    << <<"e", "4">>,
       <<"e", "5">>,
       <<"Q", "h", "5">>,
       <<"N", "f", "6">>,
       <<"Q", "x", "h", "7">> >>

\* e4 e5 Qh5 Nc6 Qxf7
QueenTakesPawnScenario ==
    << <<"e", "4">>,
       <<"e", "5">>,
       <<"Q", "h", "5">>,
       <<"N", "c", "6">>,
       <<"Q", "x", "f", "7">> >>

\* e4 d5 exd5 Qxd5 Nc3
QueenRecapturesScenario ==
    << <<"e", "4">>,
       <<"d", "5">>,
       <<"e", "x", "d", "5">>,
       <<"Q", "x", "d", "5">>,
       <<"N", "c", "3">> >>

\* the concrete token sequences of the specification's scenarios
Scenarios ==
    { QueenTradeScenario, UnresolvedScenario,
      QueenTakesPawnScenario, QueenRecapturesScenario }

\* a game record is a header, a body of lexical pieces and a trailer
Heads == { <<>>, <<"h", NL, NL>> }

Pieces ==
    { <<"1", ".">>,
      <<"1", ".", ".", ".">>,
      <<SP>>,
      <<NL>>,
      <<"O", "-", "O">>,
      <<"{", "a">>,
      <<"}">> }

Trailers ==
    { <<>>,
      <<"1", "-", "0">>,
      <<"0", "-", "1", NL>>,
      <<"1", "/", "2", "-", "1", "/", "2">> }

Records ==
    { h \o Concat(b) \o t :
        h \in Heads, b \in SeqsUpTo(Pieces, MaxPieces), t \in Trailers }

\* records of two numbered half-moves separated by a run of whitespace of
\* 1 to MaxRun characters (two newlines make a second blank line)
SpacedRecords ==
    { <<"h", NL, NL, "1", ".", "O", "-", "O">> \o w
          \o <<"1", ".", ".", ".", "O", "-", "O">> :
        w \in UNION {[1..k -> Whitespace] : k \in 1..MaxRun} }

(***************************************************************************)
(* Initial states: _collect_botez_gambits is about to tokenize the pgn of  *)
(* a game record, or _get_botez_gambit is entered with a token sequence.   *)
(***************************************************************************)
InitRecord ==
    /\ pc = "get_moves"
    /\ pgn \in Records \cup SpacedRecords
    /\ text = None
    /\ moves = <<>>
    /\ i = 0
    /\ fallen_queen = None
    /\ status = InitialStatus
    /\ result = None
    /\ games = <<>>
    /\ offered = <<>>

InitMoves ==
    /\ pc = "replay"
    /\ pgn = None
    /\ text = None
    /\ moves \in SeqsUpTo(Tokens, MaxMoves) \cup Scenarios
    /\ i = 0
    /\ fallen_queen = None
    /\ status = InitialStatus
    /\ result = None
    /\ games = <<>>
    /\ offered = <<>>

Init == InitRecord \/ InitMoves

(***************************************************************************)
(* _get_moves_list, statement by statement.                                *)
(***************************************************************************)

\* moves = pgn.split('\n\n')[1]
GetMoves ==
    /\ pc = "get_moves"
    /\ Len(PgnSections(pgn)) >= 2
    /\ text' = PgnSections(pgn)[2]
    /\ pc' = "normalize"
    /\ UNCHANGED <<registry, pgn, moves, i, fallen_queen, status, result>>

\* pgn.split('\n\n')[1] raises IndexError: the list has one element
GetMovesRaises ==
    /\ pc = "get_moves"
    /\ Len(PgnSections(pgn)) < 2
    /\ pc' = "IndexError"
    /\ UNCHANGED <<registry, pgn, text, moves, i, fallen_queen, status, result>>

\* lines 72-83: the clicks, the black move numbers and the result are
\* removed, the text is stripped and its extra spaces are removed
Normalize ==
    /\ pc = "normalize"
    /\ text' = RemoveExtraSpaces(StripMoves(RemoveResult(
                   UnifyMoves(RemoveClicks(text)))))
    /\ pc' = "split"
    /\ UNCHANGED <<registry, pgn, moves, i, fallen_queen, status, result>>

\* the split, the removal of the first element and the return to
\* _collect_botez_gambits, which hands the list to _get_botez_gambit
SplitAndReturn ==
    /\ pc = "split"
    /\ moves' = DropFirst(SplitMoves(text))
    /\ pc' = "replay"
    /\ UNCHANGED <<registry, pgn, text, i, fallen_queen, status, result>>

(***************************************************************************)
(* _get_botez_gambit: one action per way through the loop body.            *)
(***************************************************************************)

\* a queen has fallen and the move is not a take or a mate
ReturnFallenQueen ==
    /\ pc = "replay"
    /\ i < Len(moves)
    /\ fallen_queen # None
    /\ NotTakeNorMate(moves[i + 1])
    /\ result' = fallen_queen
    /\ pc' = "returned"
    /\ UNCHANGED <<registry, pgn, text, moves, i, fallen_queen, status>>

\* variant: the second queen taken replaces the first as the candidate
ReplaceFallenQueen ==
    /\ pc = "replay"
    /\ i < Len(moves)
    /\ fallen_queen # None
    /\ ~NotTakeNorMate(moves[i + 1])
    /\ TakesQueen(status, moves[i + 1])
    /\ fallen_queen' = FallenQueen(i, moves[i + 1])
    /\ status' = Track(status, moves[i + 1])
    /\ i' = i + 1
    /\ UNCHANGED <<registry, pc, pgn, text, moves, result>>

\* a second queen is taken: just a queen exchange
ReturnExchange ==
    /\ pc = "replay"
    /\ i < Len(moves)
    /\ fallen_queen # None
    /\ ~NotTakeNorMate(moves[i + 1])
    /\ TakesQueen(status, moves[i + 1])
    /\ result' = None
    /\ pc' = "returned"
    /\ UNCHANGED <<registry, pgn, text, moves, i, fallen_queen, status>>

\* the first queen is taken
QueenFalls ==
    /\ pc = "replay"
    /\ i < Len(moves)
    /\ fallen_queen = None
    /\ TakesQueen(status, moves[i + 1])
    /\ fallen_queen' = FallenQueen(i, moves[i + 1])
    /\ status' = Track(status, moves[i + 1])
    /\ i' = i + 1
    /\ UNCHANGED <<registry, pc, pgn, text, moves, result>>

\* variant: a move that is replayed clears the pending queen
ReplayForgetsFallenQueen ==
    /\ pc = "replay"
    /\ i < Len(moves)
    /\ ~(fallen_queen # None /\ NotTakeNorMate(moves[i + 1]))
    /\ ~TakesQueen(status, moves[i + 1])
    /\ fallen_queen' = None
    /\ status' = Track(status, moves[i + 1])
    /\ i' = i + 1
    /\ UNCHANGED <<registry, pc, pgn, text, moves, result>>

\* any other move
Replay ==
    /\ pc = "replay"
    /\ i < Len(moves)
    /\ ~(fallen_queen # None /\ NotTakeNorMate(moves[i + 1]))
    /\ ~TakesQueen(status, moves[i + 1])
    /\ status' = Track(status, moves[i + 1])
    /\ i' = i + 1
    /\ UNCHANGED <<registry, pc, pgn, text, moves, fallen_queen, result>>

\* variant: the pending queen is returned when the moves run out
EndOfMovesReturnsFallenQueen ==
    /\ pc = "replay"
    /\ i = Len(moves)
    /\ result' = fallen_queen
    /\ pc' = "returned"
    /\ UNCHANGED <<registry, pgn, text, moves, i, fallen_queen, status>>

\* the loop ends and the function returns None
EndOfMoves ==
    /\ pc = "replay"
    /\ i = Len(moves)
    /\ result' = None
    /\ pc' = "returned"
    /\ UNCHANGED <<registry, pgn, text, moves, i, fallen_queen, status>>

Next ==
    \/ GetMoves
    \/ GetMovesRaises
    \/ Normalize
    \/ SplitAndReturn
    \/ ReturnFallenQueen
    \/ ReturnExchange
    \/ QueenFalls
    \/ Replay
    \/ EndOfMoves

Spec == Init /\ [][Next]_vars

(***************************************************************************)
(* _register_games: the registry self._games, filled batch by batch.       *)
(***************************************************************************)

\* the 'url' values of the games the API returns
Urls == {"u1", "u2", "u3"}

\* the rest of a game's content; one url may be served with either
Pgns == {"1. e4", "1. d4"}

\* the game dictionaries handed to _register_games
AllGames == [url : Urls, pgn : Pgns]

\* the inner loop with a comparison of whole games in place of urls
RegisterOneWholeGame(reg, new_game) ==
    IF \E k \in 1..Len(reg) : reg[k] = new_game
        THEN reg
        ELSE Append(reg, new_game)

\* lines 52-56: the inner for/else for one new_game
RegisterOne(reg, new_game) ==
    IF \E k \in 1..Len(reg) : reg[k].url = new_game.url
        THEN reg
        ELSE Append(reg, new_game)

\* line 51: the outer loop over the batch, in order
RECURSIVE Register(_, _)
Register(reg, batch) ==
    IF batch = <<>>
        THEN reg
        ELSE Register(RegisterOne(reg, Head(batch)), Tail(batch))

InitRegister ==
    /\ pc = "register"
    /\ pgn = None
    /\ text = None
    /\ moves = <<>>
    /\ i = 0
    /\ fallen_queen = None
    /\ status = InitialStatus
    /\ result = None
    /\ games = <<>>
    /\ offered = <<>>

\* one call of _register_games(batch)
RegisterGames ==
    /\ pc = "register"
    /\ \E batch \in SeqsUpTo(AllGames, MaxOffered - Len(offered)) :
           /\ games' = Register(games, batch)
           /\ offered' = offered \o batch
    /\ UNCHANGED <<pc, pgn, text, moves, i, fallen_queen, status, result>>

NextRegister == RegisterGames

SpecRegister == InitRegister /\ [][NextRegister]_vars

(***************************************************************************)
(* Vocabulary of the properties, stated on the token sequence alone.       *)
(* Plies are counted from 0 as in the source's enumerate().                *)
(***************************************************************************)

\* the side that plays ply k
SideToMove(k) == IF k % 2 = 0 THEN "white" ELSE "black"

OtherSide(c) == IF c = "white" THEN "black" ELSE "white"

HomeSquare(c) == IF c = "white" THEN <<"d", "1">> ELSE <<"d", "8">>

IsSquareChar(c) == c \notin {"Q", "x", "+"}

\* the destination of a queen move: the token without its piece marker,
\* capture marker and check marker
Destination(tok) == SelectSeq(tok, IsSquareChar)

\* the tracked square of side c's queen before ply k of ms
RECURSIVE QueenBefore(_, _, _)
QueenBefore(ms, c, k) ==
    IF k = 0 THEN HomeSquare(c)
    ELSE IF SideToMove(k - 1) = c /\ ms[k] # <<>> /\ ms[k][1] = "Q"
         THEN Destination(ms[k])
         ELSE QueenBefore(ms, c, k - 1)

\* ply p of ms captures on the tracked square of the queen of the side not
\* to move
QueenTaken(ms, p) ==
    Contains(ms[p + 1],
             <<"x">> \o QueenBefore(ms, OtherSide(SideToMove(p)), p))

\* the ply of the first queen capture of ms, or -1
FirstQueenTaken(ms) ==
    LET takes == {p \in 0..(Len(ms) - 1) : QueenTaken(ms, p)}
    IN  IF takes = {} THEN -1
        ELSE CHOOSE p \in takes : \A q \in takes : p <= q

HasChar(tok, c) == \E k \in 1..Len(tok) : tok[k] = c

Returned == pc = "returned"

(***************************************************************************)
(* C1 (as amended): when the first queen capture is at ply p and the token *)
(* at ply p+1 contains neither the capture marker 'x' nor the mate marker  *)
(* '#', _get_botez_gambit returns the finding (ceil((p+1)/2), token p).    *)
(***************************************************************************)
C1_FindingAfterQuietReply ==
    Returned =>
        LET p == FirstQueenTaken(moves)
        IN  (/\ p >= 0
             /\ p + 2 <= Len(moves)
             /\ ~HasChar(moves[p + 2], "x")
             /\ ~HasChar(moves[p + 2], "#"))
            => result = <<(p + 2) \div 2, moves[p + 1]>>

\* a queen moved, was taken at ply 3, and the reply was a check without a
\* capture: the finding is returned
C1_Witness ==
    /\ Returned
    /\ FirstQueenTaken(moves) = 3
    /\ Len(moves) >= 5
    /\ HasChar(moves[5], "+")
    /\ ~HasChar(moves[5], "x")
    /\ QueenBefore(moves, "white", 3) # HomeSquare("white")
    /\ result = <<2, moves[4]>>

\* C1 as stated: the reply at ply p+1 is neither a capture nor a check
\* (contains neither 'x' nor the check marker '+')
C1_AsStated ==
    Returned =>
        LET p == FirstQueenTaken(moves)
        IN  (/\ p >= 0
             /\ p + 2 <= Len(moves)
             /\ ~HasChar(moves[p + 2], "x")
             /\ ~HasChar(moves[p + 2], "+"))
            => result = <<(p + 2) \div 2, moves[p + 1]>>

(***************************************************************************)
(* C2: when the first queen capture is at ply p and the token at ply p+1   *)
(* captures on the square the capturing side's tracked queen then stands   *)
(* on, _get_botez_gambit returns None, whatever tokens follow.             *)
(***************************************************************************)
C2_ReciprocalTradeReturnsNone ==
    Returned =>
        LET p == FirstQueenTaken(moves)
        IN  (/\ p >= 0
             /\ p + 2 <= Len(moves)
             /\ Contains(moves[p + 2],
                         <<"x">> \o QueenBefore(moves, SideToMove(p), p + 1)))
            => result = None

\* a queen takes a queen with check, is taken back on its new square, and
\* a quiet token follows the exchange
C2_Witness ==
    /\ Returned
    /\ result = None
    /\ FirstQueenTaken(moves) = 2
    /\ Len(moves) = 5
    /\ HasChar(moves[3], "+")
    /\ QueenBefore(moves, "white", 3) = <<"d", "8">>
    /\ Contains(moves[4], <<"x", "d", "8">>)
    /\ ~HasChar(moves[5], "x")
    /\ ~HasChar(moves[5], "#")
    /\ i = 3

(***************************************************************************)
(* C3: when the tokens run out while a queen capture is pending, the       *)
(* result is None; in particular when the last token is the first queen    *)
(* capture.                                                                *)
(***************************************************************************)
C3_PendingAtEndReturnsNone ==
    Returned =>
        /\ (i = Len(moves) /\ fallen_queen # None) => result = None
        /\ (moves # <<>> /\ FirstQueenTaken(moves) = Len(moves) - 1)
               => result = None

\* the tokens ran out two plies after the first queen capture
C3_Witness ==
    /\ Returned
    /\ i = Len(moves)
    /\ fallen_queen # None
    /\ FirstQueenTaken(moves) = Len(moves) - 3
    /\ result = None

(***************************************************************************)
(* C4 (as amended): while a queen capture is pending, the finding is       *)
(* returned on the current token exactly when that token contains neither  *)
(* the capture marker 'x' nor the mate marker '#'; a check without a       *)
(* capture, such as "Nf3+", does return it.                                *)
(***************************************************************************)
C4_EmittedIffNoTakeNoMate ==
    [][(pc = "replay" /\ i < Len(moves) /\ fallen_queen # None) =>
          ((pc' = "returned" /\ result' = fallen_queen)
              <=> (~HasChar(moves[i + 1], "x") /\ ~HasChar(moves[i + 1], "#")))
      ]_vars

\* the finding was returned on the token "Nf3+"
C4_Witness ==
    /\ Returned
    /\ result # None
    /\ i < Len(moves)
    /\ moves[i + 1] = <<"N", "f", "3", "+">>

\* C4 as stated: exactly when the token contains neither the capture marker
\* nor the check marker '+'
C4_AsStated ==
    [][(pc = "replay" /\ i < Len(moves) /\ fallen_queen # None) =>
          ((pc' = "returned" /\ result' = fallen_queen)
              <=> (~HasChar(moves[i + 1], "x") /\ ~HasChar(moves[i + 1], "+")))
      ]_vars

(***************************************************************************)
(* C5: every finding returned carries ceil((p+1)/2) for the 0-based index  *)
(* p of the capturing token (1 for p in {0,1}, 2 for p in {2,3}), not of   *)
(* the token that triggers the return, and its text is the capturing       *)
(* token.                                                                  *)
(***************************************************************************)
C5_FindingNumbersCapturingToken ==
    (Returned /\ result # None) =>
        LET p == FirstQueenTaken(moves)
        IN  /\ p >= 0
            /\ p < i
            /\ result[2] = moves[p + 1]
            /\ 2 * result[1] \in {p + 1, p + 2}
            /\ (p \in {0, 1} => result[1] = 1)
            /\ (p \in {2, 3} => result[1] = 2)
            /\ (p \in {4, 5} => result[1] = 3)

\* the capture was at index 2 and the return two tokens later, at index 4
C5_Witness ==
    /\ Returned
    /\ result # None
    /\ FirstQueenTaken(moves) = 2
    /\ i = 4
    /\ result = <<2, moves[3]>>

(***************************************************************************)
(* Vocabulary of the tokenizer's properties.                               *)
(***************************************************************************)

\* _get_moves_list has returned moves for the record pgn
Tokenized == pc \in {"replay", "returned"} /\ pgn # None

ResultMarkers ==
    { <<"1", "-", "0">>,
      <<"0", "-", "1">>,
      <<"1", "/", "2", "-", "1", "/", "2">> }

\* digits followed by a period
HasMoveNumber(tok) ==
    \E k \in 1..(Len(tok) - 1) : tok[k] \in Digits /\ tok[k + 1] = "."

\* an opening brace with a closing brace after it
HasBracedText(tok) ==
    \E a \in 1..Len(tok) : \E b \in (a + 1)..Len(tok) :
        tok[a] = "{" /\ tok[b] = "}"

HasResultMarker(tok) == \E r \in ResultMarkers : Contains(tok, r)

\* two runs of move text separated by whitespace
HoldsTwoHalfMoves(tok) ==
    \E a \in 1..Len(tok) : \E b \in (a + 1)..Len(tok) :
        \E c \in (b + 1)..Len(tok) :
            /\ tok[a] \notin Whitespace
            /\ tok[b] \in Whitespace
            /\ tok[c] \notin Whitespace

\* move numbers, castling moves, results and whitespace only
PlainMoveText(s) ==
    \A k \in 1..Len(s) :
        s[k] \in Digits \cup Whitespace \cup {".", "O", "-", "/"}

AllWhitespace(s) == \A k \in 1..Len(s) : s[k] \in Whitespace

\* the record has a blank line
HasBlankLine(p) == \E k \in 1..(Len(p) - 1) : p[k] = NL /\ p[k + 1] = NL

\* the text after the first blank line of the record
MoveSection(p) ==
    LET k == CHOOSE n \in 1..(Len(p) - 1) :
                 /\ p[n] = NL /\ p[n + 1] = NL
                 /\ \A m \in 1..(n - 1) : ~(p[m] = NL /\ p[m + 1] = NL)
    IN  SubSeq(p, k + 2, Len(p))

\* whitespace, then at most one result marker, then whitespace
ResultAndWhitespaceOnly(s) ==
    \E a \in 0..Len(s) : \E b \in a..Len(s) :
        /\ AllWhitespace(SubSeq(s, 1, a))
        /\ SubSeq(s, a + 1, b) \in ResultMarkers \cup {<<>>}
        /\ AllWhitespace(SubSeq(s, b + 1, Len(s)))

(***************************************************************************)
(* C6: the core never raises: _get_moves_list returns a token sequence for *)
(* every game record, a record without a blank line included.              *)
(***************************************************************************)
C6_NeverRaises == pc # "IndexError"

(***************************************************************************)
(* C7: no token returned by _get_moves_list contains a move-number marker, *)
(* braced annotation text or a result marker.                              *)
(***************************************************************************)
C7_NoMarkersInTokens ==
    Tokenized =>
        \A k \in 1..Len(moves) :
            /\ ~HasMoveNumber(moves[k])
            /\ ~HasBracedText(moves[k])
            /\ ~HasResultMarker(moves[k])

(***************************************************************************)
(* C8: every token returned by _get_moves_list for a move section of move  *)
(* numbers, moves, whitespace and a result holds exactly one half-move, so *)
(* that the token at index k is the ply of SideToMove(k).                  *)
(***************************************************************************)
C8_OneHalfMovePerToken ==
    (Tokenized /\ PlainMoveText(MoveSection(pgn))) => \A k \in 1..Len(moves) : ~HoldsTwoHalfMoves(moves[k])

(***************************************************************************)
(* C9: the sequence returned by _get_moves_list contains no empty token.   *)
(***************************************************************************)
C9_NoEmptyToken ==
    Tokenized => \A k \in 1..Len(moves) : moves[k] # <<>>

(***************************************************************************)
(* C10: a record whose move section is empty, or holds only a result       *)
(* marker and whitespace, is tokenized to the empty sequence, and          *)
(* _get_botez_gambit returns None on the empty sequence.                   *)
(***************************************************************************)
C10_EmptySectionEmptySequence ==
    /\ (Tokenized /\ ResultAndWhitespaceOnly(MoveSection(pgn)))
           => moves = <<>>
    /\ (Returned /\ moves = <<>>) => result = None

\* a record whose move section is a result marker between whitespace was
\* tokenized and replayed
C10_Witness ==
    /\ Returned
    /\ pgn # None
    /\ LET s == MoveSection(pgn)
       IN  /\ ResultAndWhitespaceOnly(s)
           /\ HasResultMarker(s)
           /\ s[1] \in Whitespace
           /\ s[Len(s)] \in Whitespace
    /\ moves = <<>>
    /\ result = None

(***************************************************************************)
(* C11 (as amended): on d4 d5 Qd3 Qd6 Qxd5 Qxd1 no token enters PENDING    *)
(* (at ply 5 Black's tracked queen is on d6, not d5; at ply 6 White's is   *)
(* on d5, not d1), all six tokens are replayed and the result is None.     *)
(***************************************************************************)
C11_QueenTradeNeverPending ==
    (moves = QueenTradeScenario) =>
        /\ fallen_queen = None
        /\ (pc = "replay" /\ i = 4) =>
               (status.white = <<"d", "3">> /\ status.black = <<"d", "6">>)
        /\ (pc = "replay" /\ i = 5) => status.white = <<"d", "5">>
        /\ Returned => (result = None /\ i = 6)

\* the scenario was replayed to its end
C11_Witness ==
    /\ moves = QueenTradeScenario
    /\ Returned
    /\ i = 6
    /\ fallen_queen = None
    /\ result = None

\* C11 as stated: PENDING is entered at ply 5 and cancelled at ply 6
C11_AsStated ==
    (moves = QueenTradeScenario) =>
        /\ (pc = "replay" /\ i = 5) => fallen_queen # None
        /\ Returned => (result = None /\ i = 5 /\ fallen_queen # None)

(***************************************************************************)
(* C12 (as amended): on e4 e5 Qh5 Nf6 Qxh7 no token enters PENDING (at ply *)
(* 5 Black's tracked queen is on d8, not h7), the sequence is exhausted    *)
(* and the result is None.                                                 *)
(***************************************************************************)
C12_UnresolvedNeverPending ==
    (moves = UnresolvedScenario) =>
        /\ fallen_queen = None
        /\ (pc = "replay" /\ i = 4) => status.black = <<"d", "8">>
        /\ Returned => (result = None /\ i = 5)

\* the scenario was replayed to its end
C12_Witness ==
    /\ moves = UnresolvedScenario
    /\ Returned
    /\ i = 5
    /\ status.white = <<"h", "7">>
    /\ fallen_queen = None
    /\ result = None

\* C12 as stated: PENDING is entered at ply 5 and the sequence then ends
C12_AsStated ==
    (moves = UnresolvedScenario) =>
        /\ (pc = "replay" /\ i = 5) => fallen_queen # None
        /\ Returned => (result = None /\ fallen_queen # None)

(***************************************************************************)
(* C13: a queen capture is pending only if some token already replayed     *)
(* contains 'x' followed by the tracked square of the queen of the side    *)
(* not to move at that ply, and the candidate is the first such token; a   *)
(* capture on any other square never enters PENDING.  e4 e5 Qh5 Nc6 Qxf7   *)
(* and e4 d5 exd5 Qxd5 Nc3 never enter PENDING and return None.            *)
(***************************************************************************)
C13_PendingOnlyOnQueenSquare ==
    /\ (pc \in {"replay", "returned"} /\ fallen_queen # None) =>
           LET p == FirstQueenTaken(moves)
           IN  /\ p >= 0
               /\ p < i
               /\ fallen_queen[2] = moves[p + 1]
    /\ (moves \in {QueenTakesPawnScenario, QueenRecapturesScenario}) =>
           /\ fallen_queen = None
           /\ Returned => (result = None /\ i = 5)

\* the second scenario, with a pawn capture and a queen capture on d5, was
\* replayed to its end without a pending queen
C13_Witness ==
    /\ moves = QueenRecapturesScenario
    /\ Returned
    /\ i = 5
    /\ status.black = <<"d", "5">>
    /\ fallen_queen = None
    /\ result = None

(***************************************************************************)
(* C14: whenever _get_botez_gambit returns None early through the queen    *)
(* exchange, the cancelling token is played by the side whose queen was    *)
(* captured and captures on the square of the capturing side's queen; a    *)
(* capture by the side that took the queen never cancels.                  *)
(***************************************************************************)
C14_CancelIsReciprocal ==
    (Returned /\ i < Len(moves) /\ result = None) =>
        LET p == FirstQueenTaken(moves)
        IN  /\ p >= 0
            /\ SideToMove(i) = OtherSide(SideToMove(p))
            /\ Contains(moves[i + 1],
                        <<"x">> \o QueenBefore(moves, SideToMove(p), i))

(***************************************************************************)
(* C15: _get_botez_gambit returns at most one finding, always for the      *)
(* first token that entered PENDING; it returns at the first later token   *)
(* that is neither a take nor a mate, and no step follows the return, so   *)
(* the tokens after that one do not change the result.                     *)
(***************************************************************************)
C15_FirstOnly ==
    /\ []((Returned /\ result # None) =>
            LET p == FirstQueenTaken(moves)
            IN  /\ p >= 0
                /\ Len(result) = 2
                /\ result = <<(p + 2) \div 2, moves[p + 1]>>
                /\ i \in (p + 1)..(Len(moves) - 1)
                /\ ~HasChar(moves[i + 1], "x")
                /\ ~HasChar(moves[i + 1], "#")
                /\ \A k \in (p + 1)..(i - 1) :
                       HasChar(moves[k + 1], "x") \/ HasChar(moves[k + 1], "#"))
    /\ [][pc # "returned"]_vars

\* White's finding was returned at index 1; Black then takes White's queen
\* at index 3 and White does not contest at index 4
C15_Witness ==
    /\ Returned
    /\ result # None
    /\ FirstQueenTaken(moves) = 0
    /\ i = 1
    /\ Len(moves) = 5
    /\ QueenTaken(moves, 3)
    /\ ~HasChar(moves[5], "x")
    /\ ~HasChar(moves[5], "#")
    /\ result = <<1, moves[1]>>

(***************************************************************************)
(* C16: while a queen capture is pending with candidate (n, t), a token    *)
(* that contains 'x' but does not capture on the tracked square of the     *)
(* queen of the side not to move leaves the candidate pending unchanged,   *)
(* whichever side plays it; the candidate is that of the first queen       *)
(* capture and is returned unchanged by the first later token that is      *)
(* neither a take nor a mate.                                              *)
(***************************************************************************)
C16_CapturesKeepCandidate ==
    /\ []((pc \in {"replay", "returned"} /\ fallen_queen # None) =>
            LET p == FirstQueenTaken(moves)
            IN  p >= 0 /\ fallen_queen = <<(p + 2) \div 2, moves[p + 1]>>)
    /\ [][(/\ pc = "replay"
           /\ i < Len(moves)
           /\ fallen_queen # None
           /\ HasChar(moves[i + 1], "x")
           /\ ~QueenTaken(moves, i))
          => (pc' = "replay" /\ fallen_queen' = fallen_queen /\ i' = i + 1)
      ]_vars
    /\ [][(/\ pc = "replay"
           /\ i < Len(moves)
           /\ fallen_queen # None
           /\ ~HasChar(moves[i + 1], "x")
           /\ ~HasChar(moves[i + 1], "#"))
          => (pc' = "returned" /\ result' = fallen_queen)
      ]_vars

\* the queen fell at index 0, a capture by each side followed and the
\* candidate was returned at index 3
C16_Witness ==
    /\ Returned
    /\ FirstQueenTaken(moves) = 0
    /\ i = 3
    /\ HasChar(moves[2], "x")
    /\ HasChar(moves[3], "x")
    /\ result = <<1, moves[1]>>

(***************************************************************************)
(* C17: a token that is replayed without returning changes the position    *)
(* only so: a token beginning with 'Q' sets the moving side's tracked      *)
(* square to its destination and leaves the other side's square; any other *)
(* token leaves both squares; side-to-move flips.  From White, d1 and d8,  *)
(* side-to-move before token i is White exactly when i is even.            *)
(***************************************************************************)
C17_TrackFrame ==
    /\ [](pc = "replay" => status.to_move = SideToMove(i))
    /\ []((pc = "replay" /\ i = 0) => status = InitialStatus)
    /\ [][(i' = i + 1) =>
            LET tok  == moves[i + 1]
                side == SideToMove(i)
            IN  /\ status'.to_move = OtherSide(side)
                /\ status'[OtherSide(side)] = status[OtherSide(side)]
                /\ status'[side] =
                       IF tok # <<>> /\ tok[1] = "Q"
                       THEN Destination(tok)
                       ELSE status[side]
      ]_vars

\* White's queen took on d8 with check and Black's queen took on d1: both
\* tracked squares have changed
C17_Witness ==
    /\ pc = "replay"
    /\ i = 2
    /\ moves[1] = <<"Q", "x", "d", "8", "+">>
    /\ moves[2] = <<"Q", "x", "d", "1">>
    /\ status.white = <<"d", "8">>
    /\ status.black = <<"d", "1">>
    /\ status.to_move = "white"

(***************************************************************************)
(* C18: after the whitespace-collapsing step every run of two or more      *)
(* whitespace characters has become one space, so the text handed to the   *)
(* move-number split holds no two adjacent whitespace characters.          *)
(***************************************************************************)
C18_NoAdjacentWhitespace ==
    (pc = "split") =>
        \A k \in 1..(Len(text) - 1) :
            ~(text[k] \in Whitespace /\ text[k + 1] \in Whitespace)

\* lines 72-88 applied to a move section
TokensOf(section) ==
    DropFirst(SplitMoves(RemoveExtraSpaces(StripMoves(RemoveResult(
        UnifyMoves(RemoveClicks(section)))))))

FirstOffered(u) ==
    offered[CHOOSE j \in 1..Len(offered) :
                /\ offered[j].url = u
                /\ \A h \in 1..(j - 1) : offered[h].url # u]

\* the games handed over by the step all carry urls handed over before
OnlyKnownUrlsOffered ==
    \A k \in (Len(offered) + 1)..Len(offered') :
        \E j \in 1..Len(offered) : offered'[k].url = offered[j].url

(***************************************************************************)
(* C20: starting from an empty registry, after any sequence of             *)
(* _register_games calls no two registered games share a url, every        *)
(* offered url is registered exactly once, the game kept for a url is the  *)
(* first one offered, registered games are never removed, replaced or      *)
(* reordered, and a batch whose urls were all offered before (a batch      *)
(* registered a second time) leaves the registry unchanged.                *)
(***************************************************************************)
C20_RegistryDuplicateFree ==
    /\ [](\A k, l \in 1..Len(games) :
              k # l => games[k].url # games[l].url)
    /\ [](\A j \in 1..Len(offered) :
              Cardinality({k \in 1..Len(games) :
                               games[k].url = offered[j].url}) = 1)
    /\ [](\A k \in 1..Len(games) : games[k] = FirstOffered(games[k].url))
    /\ [][/\ Len(games) <= Len(games')
          /\ SubSeq(games', 1, Len(games)) = games]_vars
    /\ [][OnlyKnownUrlsOffered => games' = games]_vars

\* a batch with a duplicate inside it was registered twice
C20_Witness ==
    /\ pc = "register"
    /\ Len(offered) = 4
    /\ offered[1].url = offered[2].url
    /\ offered[1] # offered[2]
    /\ offered[3] = offered[1]
    /\ offered[4] = offered[2]
    /\ games = <<offered[1]>>

====
